---- MODULE Spec2Model ----
(***************************************************************************)
(* Model of the buffer-pool core of zhgh66/Database:                       *)
(*   - LRUKReplacer        (src/lru_k_replacer.cpp)                        *)
(*   - ExtendibleHashTable (src/extendible_hash_table.cpp)                 *)
(* Every public operation runs under the instance's mutex, so one action   *)
(* is one whole call.  `last' and `pre' are history variables: the call    *)
(* that produced the current state and the state it started from.          *)
(***************************************************************************)
EXTENDS Integers, Sequences, FiniteSets, TLC

VARIABLES
    access_history_,    \* replacer: frame id -> sequence of timestamps (<<>> = no map entry)
    evictable_,         \* replacer: frame id -> BOOLEAN (a missing map entry reads as false)
    current_timestamp_, \* replacer: the clock
    curr_size_,         \* replacer: the maintained counter
    replacer_size_,     \* replacer: num_frames given to the constructor
    k_,                 \* replacer: K given to the constructor
    dir_,               \* hash table: directory, slot (0-based) -> bucket number
    buckets,            \* hash table: bucket number -> [depth, list]
    global_depth_,      \* hash table
    num_buckets_,       \* hash table
    bucket_size_,       \* hash table: capacity given to the constructor
    abs,                \* hash table, ghost: the key -> value map the calls so far define
    scenario,           \* hash table, ghost: how far the calls so far follow H1Script (-1: they left it)
    latch_,             \* threads: the holder of the instance's mutex, 0 when it is free
    pc,                 \* threads: thread -> where it stands in its call
    frame,              \* threads: thread -> the arguments and locals of its call
    instance,           \* threads: which instance the threads share
    last,               \* the last call and what it returned
    pre                 \* the state the last call started from

vars == <<access_history_, evictable_, current_timestamp_, curr_size_,
          replacer_size_, k_, dir_, buckets, global_depth_, num_buckets_,
          bucket_size_, abs, scenario, latch_, pc, frame, instance, last, pre>>

replacerVars == <<access_history_, evictable_, current_timestamp_, curr_size_,
                  replacer_size_, k_>>

hashVars == <<dir_, buckets, global_depth_, num_buckets_, bucket_size_, abs, scenario>>

tableVars == <<dir_, buckets, global_depth_, num_buckets_, bucket_size_, abs>>

threadVars == <<latch_, pc, frame, instance>>

----------------------------------------------------------------------------
(* Bounds *)

\* the replacer is built with num_frames = MaxFrames; callers use ids 0..MaxFrames
MaxFrames == 2

\* K ranges over 1..MaxK
MaxK == 2

\* RecordAccess is cut off once the clock reaches MaxClock
MaxClock == 4

FrameIds == 0..MaxFrames

\* keys are 0..MaxKey
MaxKey == 4

\* a key k is inserted with the value k or k + ValOffset
ValOffset == 10

\* the table is built with a bucket capacity in 1..MaxBucketSize
MaxBucketSize == 2

\* Insert is cut off when it would double the directory beyond this depth
MaxGlobalDepth == 3

\* the threads call the table with the lower half of the keys
ThreadKeys == 0..(MaxKey \div 2)

\* the threads call the replacer with the lower half of the frame ids
ThreadFrames == 0..(MaxFrames \div 2)

\* what a call reports when dir_.at(index) throws std::out_of_range
OutOfRange == -2

Keys == 0..MaxKey

ValuesOf(key) == {key, key + ValOffset}

\* "no value": Find returned false
NoValue == -1

\* bits kept of an int; the bits above are the same in every value that occurs
IntBits == 30

\* frame_id_t victim_id = -1: the "no victim" value of Evict
NoFrame == -1

\* stand-in for std::numeric_limits<size_t>::max(): above every timestamp
SIZE_MAX == 2147483647

----------------------------------------------------------------------------
(* LRUKReplacer *)

\* every order in which the unordered_map access_history_ can be traversed
RECURSIVE Orders(_)
Orders(S) ==
    IF S = {} THEN {<<>>}
    ELSE UNION {{<<x>> \o p : p \in Orders(S \ {x})} : x \in S}

Tracked(hist) == {f \in DOMAIN hist : hist[f] # <<>>}

ReplacerState ==
    [access_history |-> access_history_, evictable |-> evictable_,
     current_timestamp |-> current_timestamp_, curr_size |-> curr_size_]

\* LRUKReplacer::Size: counts the true entries of evictable_
Size == Cardinality({f \in DOMAIN evictable_ : evictable_[f]})

\* the calls of scenario R4 of the specification, in order, on frame 0
R4Script ==
    <<[op |-> "RecordAccess", arg |-> 0, flag |-> FALSE, ret |-> NoFrame],
      [op |-> "SetEvictable", arg |-> 0, flag |-> TRUE, ret |-> NoFrame],
      [op |-> "Remove", arg |-> 0, flag |-> FALSE, ret |-> NoFrame],
      [op |-> "RecordAccess", arg |-> 0, flag |-> FALSE, ret |-> NoFrame]>>

\* `scenario' after one more call of the replacer: n while the calls made since
\* construction are exactly the first n calls of R4Script, -1 from then on
FollowedR4(call) ==
    IF scenario >= 0 /\ scenario < Len(R4Script) /\ R4Script[scenario + 1] = call
    THEN scenario + 1
    ELSE -1

\* EvictVisit ranking every frame by its last access (plain LRU, K ignored)
EvictVisit_LRU(acc, id) ==
    IF ~evictable_[id] THEN acc
    ELSE
      LET history == access_history_[id]
          backward_distance == current_timestamp_ - history[Len(history)]
      IN  IF \/ backward_distance > acc.max_backward_distance
             \/ /\ backward_distance = acc.max_backward_distance
                /\ history[Len(history)] < acc.latest_access_time
          THEN [acc EXCEPT !.max_backward_distance = backward_distance,
                           !.victim_id = id,
                           !.latest_access_time = history[Len(history)]]
          ELSE acc

\* EvictVisit without the skip of non-evictable frames
EvictVisit_NoSkip(acc, id) ==
    LET history == access_history_[id]
        lessK   == Len(history) < k_
        found   == acc.found \/ lessK
        backward_distance ==
            IF lessK THEN history[1]
            ELSE current_timestamp_ - history[Len(history) - k_ + 1]
    IN  IF found
        THEN IF backward_distance < acc.latest_access_time
             THEN [acc EXCEPT !.found = found,
                              !.latest_access_time = backward_distance,
                              !.victim_id = id]
             ELSE [acc EXCEPT !.found = found]
        ELSE IF \/ backward_distance > acc.max_backward_distance
                \/ /\ backward_distance = acc.max_backward_distance
                   /\ history[Len(history)] < acc.latest_access_time
             THEN [acc EXCEPT !.max_backward_distance = backward_distance,
                              !.victim_id = id,
                              !.latest_access_time = history[Len(history)]]
             ELSE acc

\* one iteration of the loop of Evict over the entry (id, history);
\* acc = [victim_id, max_backward_distance, latest_access_time, found]
EvictVisit(acc, id) ==
    IF ~evictable_[id] THEN acc
    ELSE
      LET history == access_history_[id]
          lessK   == Len(history) < k_
          found   == acc.found \/ lessK
          backward_distance ==
              IF lessK THEN history[1]
              ELSE current_timestamp_ - history[Len(history) - k_ + 1]
      IN  IF found
          THEN IF backward_distance < acc.latest_access_time
               THEN [acc EXCEPT !.found = found,
                                !.latest_access_time = backward_distance,
                                !.victim_id = id]
               ELSE [acc EXCEPT !.found = found]
          ELSE IF \/ backward_distance > acc.max_backward_distance
                  \/ /\ backward_distance = acc.max_backward_distance
                     /\ history[Len(history)] < acc.latest_access_time
               THEN [acc EXCEPT !.max_backward_distance = backward_distance,
                                !.victim_id = id,
                                !.latest_access_time = history[Len(history)]]
               ELSE acc

RECURSIVE EvictScan(_, _, _)
EvictScan(order, i, acc) ==
    IF i > Len(order) THEN acc
    ELSE EvictScan(order, i + 1, EvictVisit(acc, order[i]))

\* the victim the loop of Evict ends with when it visits the map in `order'
EvictVictim(order) ==
    EvictScan(order, 1,
              [victim_id |-> NoFrame, max_backward_distance |-> 0,
               latest_access_time |-> SIZE_MAX, found |-> FALSE]).victim_id

Evict ==
    \E order \in Orders(Tracked(access_history_)) :
      LET victim_id == EvictVictim(order) IN
        /\ pre' = ReplacerState
        /\ last' = [op |-> "Evict", arg |-> NoFrame, flag |-> FALSE, ret |-> victim_id]
        /\ scenario' = FollowedR4(last')
        /\ IF victim_id = NoFrame
           THEN UNCHANGED <<access_history_, evictable_, curr_size_>>
           ELSE /\ access_history_' = [access_history_ EXCEPT ![victim_id] = <<>>]
                /\ evictable_' = [evictable_ EXCEPT ![victim_id] = FALSE]
                /\ curr_size_' = curr_size_ - 1
        /\ UNCHANGED <<current_timestamp_, replacer_size_, k_, tableVars, threadVars>>

\* RecordAccess that leaves the clock where it was
RecordAccess_NoTick(frame_id) ==
    /\ current_timestamp_ < MaxClock
    /\ pre' = ReplacerState
    /\ last' = [op |-> "RecordAccess", arg |-> frame_id, flag |-> FALSE, ret |-> NoFrame]
    /\ scenario' = FollowedR4(last')
    /\ access_history_' =
         [access_history_ EXCEPT ![frame_id] = Append(@, current_timestamp_)]
    /\ UNCHANGED <<current_timestamp_, evictable_, curr_size_, replacer_size_, k_,
                   tableVars, threadVars>>

RecordAccess(frame_id) ==
    /\ current_timestamp_ < MaxClock
    /\ pre' = ReplacerState
    /\ last' = [op |-> "RecordAccess", arg |-> frame_id, flag |-> FALSE, ret |-> NoFrame]
    /\ scenario' = FollowedR4(last')
    /\ access_history_' =
         [access_history_ EXCEPT ![frame_id] = Append(@, current_timestamp_)]
    /\ current_timestamp_' = current_timestamp_ + 1
    /\ UNCHANGED <<evictable_, curr_size_, replacer_size_, k_, tableVars, threadVars>>

\* SetEvictable without the early return for a frame that has no history
SetEvictable_Untracked(frame_id, set_evictable) ==
    /\ pre' = ReplacerState
    /\ last' = [op |-> "SetEvictable", arg |-> frame_id, flag |-> set_evictable,
                ret |-> NoFrame]
    /\ scenario' = FollowedR4(last')
    /\ IF evictable_[frame_id] # set_evictable
       THEN /\ evictable_' = [evictable_ EXCEPT ![frame_id] = set_evictable]
            /\ curr_size_' = IF set_evictable THEN curr_size_ + 1
                                              ELSE curr_size_ - 1
       ELSE UNCHANGED <<evictable_, curr_size_>>
    /\ UNCHANGED <<access_history_, current_timestamp_, replacer_size_, k_, tableVars, threadVars>>

SetEvictable(frame_id, set_evictable) ==
    /\ pre' = ReplacerState
    /\ last' = [op |-> "SetEvictable", arg |-> frame_id, flag |-> set_evictable,
                ret |-> NoFrame]
    /\ scenario' = FollowedR4(last')
    /\ IF access_history_[frame_id] = <<>>
       THEN UNCHANGED <<evictable_, curr_size_>>
       ELSE IF evictable_[frame_id] # set_evictable
            THEN /\ evictable_' = [evictable_ EXCEPT ![frame_id] = set_evictable]
                 /\ curr_size_' = IF set_evictable THEN curr_size_ + 1
                                                   ELSE curr_size_ - 1
            ELSE UNCHANGED <<evictable_, curr_size_>>
    /\ UNCHANGED <<access_history_, current_timestamp_, replacer_size_, k_, tableVars, threadVars>>

\* Remove that erases the history but leaves the evictable flag set
LRUK_Remove_KeepFlag(frame_id) ==
    /\ pre' = ReplacerState
    /\ last' = [op |-> "Remove", arg |-> frame_id, flag |-> FALSE, ret |-> NoFrame]
    /\ scenario' = FollowedR4(last')
    /\ IF access_history_[frame_id] # <<>> /\ evictable_[frame_id]
       THEN /\ access_history_' = [access_history_ EXCEPT ![frame_id] = <<>>]
            /\ curr_size_' = curr_size_ - 1
            /\ UNCHANGED evictable_
       ELSE UNCHANGED <<access_history_, evictable_, curr_size_>>
    /\ UNCHANGED <<current_timestamp_, replacer_size_, k_, tableVars, threadVars>>

\* Remove that erases a tracked frame whether or not it is evictable
LRUK_Remove_IgnorePin(frame_id) ==
    /\ pre' = ReplacerState
    /\ last' = [op |-> "Remove", arg |-> frame_id, flag |-> FALSE, ret |-> NoFrame]
    /\ scenario' = FollowedR4(last')
    /\ IF access_history_[frame_id] # <<>>
       THEN /\ access_history_' = [access_history_ EXCEPT ![frame_id] = <<>>]
            /\ evictable_' = [evictable_ EXCEPT ![frame_id] = FALSE]
            /\ curr_size_' = IF evictable_[frame_id] THEN curr_size_ - 1 ELSE curr_size_
       ELSE UNCHANGED <<access_history_, evictable_, curr_size_>>
    /\ UNCHANGED <<current_timestamp_, replacer_size_, k_, tableVars, threadVars>>

\* Remove that clears the flag and the counter but keeps the history
LRUK_Remove_KeepHistory(frame_id) ==
    /\ pre' = ReplacerState
    /\ last' = [op |-> "Remove", arg |-> frame_id, flag |-> FALSE, ret |-> NoFrame]
    /\ scenario' = FollowedR4(last')
    /\ IF access_history_[frame_id] # <<>> /\ evictable_[frame_id]
       THEN /\ evictable_' = [evictable_ EXCEPT ![frame_id] = FALSE]
            /\ curr_size_' = curr_size_ - 1
            /\ UNCHANGED access_history_
       ELSE UNCHANGED <<access_history_, evictable_, curr_size_>>
    /\ UNCHANGED <<current_timestamp_, replacer_size_, k_, tableVars, threadVars>>

LRUK_Remove(frame_id) ==
    /\ pre' = ReplacerState
    /\ last' = [op |-> "Remove", arg |-> frame_id, flag |-> FALSE, ret |-> NoFrame]
    /\ scenario' = FollowedR4(last')
    /\ IF access_history_[frame_id] # <<>> /\ evictable_[frame_id]
       THEN /\ access_history_' = [access_history_ EXCEPT ![frame_id] = <<>>]
            /\ evictable_' = [evictable_ EXCEPT ![frame_id] = FALSE]
            /\ curr_size_' = curr_size_ - 1
       ELSE UNCHANGED <<access_history_, evictable_, curr_size_>>
    /\ UNCHANGED <<current_timestamp_, replacer_size_, k_, tableVars, threadVars>>

----------------------------------------------------------------------------
(* ExtendibleHashTable *)

\* x & y
RECURSIVE BitAnd(_, _)
BitAnd(x, y) ==
    IF x = 0 \/ y = 0 THEN 0
    ELSE (x % 2) * (y % 2) + 2 * BitAnd(x \div 2, y \div 2)

\* x ^ y
RECURSIVE BitXor(_, _)
BitXor(x, y) ==
    IF x = 0 THEN y
    ELSE IF y = 0 THEN x
    ELSE (((x % 2) + (y % 2)) % 2) + 2 * BitXor(x \div 2, y \div 2)

\* ~x, as the bit pattern of the int
BitNot(x) == (2 ^ IntBits - 1) - x

\* x >> 1 on a signed int: the sign bit is shifted in
ShiftRight1(x) ==
    (x \div 2) + (IF x >= 2 ^ (IntBits - 1) THEN 2 ^ (IntBits - 1) ELSE 0)

\* std::hash<int>: the value itself
Hash(key) == key

\* ExtendibleHashTable::IndexOf at global depth gd
IndexOf(key, gd) == BitAnd(Hash(key), 2 ^ gd - 1)

\* position of the first entry of `list' with this key, 0 if there is none
RECURSIVE PosOf(_, _, _)
PosOf(list, key, i) ==
    IF i > Len(list) THEN 0
    ELSE IF list[i][1] = key THEN i
    ELSE PosOf(list, key, i + 1)

\* Bucket::IsFull
IsFull(bucket) == Len(bucket.list) >= bucket.size

\* Bucket::Find: the value of the first entry with this key, or NoValue
BucketFind(bucket, key) ==
    LET i == PosOf(bucket.list, key, 1)
    IN  IF i = 0 THEN NoValue ELSE bucket.list[i][2]

\* Bucket::Remove: erases the first entry with this key
BucketRemove(bucket, key) ==
    LET i == PosOf(bucket.list, key, 1)
    IN  IF i = 0 THEN bucket
        ELSE [bucket EXCEPT !.list = SubSeq(@, 1, i - 1) \o SubSeq(@, i + 1, Len(@))]

\* Bucket::Insert that tests IsFull before it looks for the key
BucketInsert_FullFirst(bucket, key, value) ==
    LET i == PosOf(bucket.list, key, 1)
    IN  IF IsFull(bucket)
        THEN [ok |-> FALSE, bucket |-> bucket]
        ELSE IF i # 0
        THEN [ok |-> TRUE, bucket |-> [bucket EXCEPT !.list[i] = <<key, value>>]]
        ELSE [ok |-> TRUE, bucket |-> [bucket EXCEPT !.list = Append(@, <<key, value>>)]]

\* Bucket::Insert that appends without looking for the key
BucketInsert_Append(bucket, key, value) ==
    IF IsFull(bucket)
    THEN [ok |-> FALSE, bucket |-> bucket]
    ELSE [ok |-> TRUE, bucket |-> [bucket EXCEPT !.list = Append(@, <<key, value>>)]]

\* Bucket::Insert that never reports a full bucket
BucketInsert_Unbounded(bucket, key, value) ==
    LET i == PosOf(bucket.list, key, 1)
    IN  IF i # 0
        THEN [ok |-> TRUE, bucket |-> [bucket EXCEPT !.list[i] = <<key, value>>]]
        ELSE [ok |-> TRUE, bucket |-> [bucket EXCEPT !.list = Append(@, <<key, value>>)]]

\* Bucket::Insert: [ok |-> the bool returned, bucket |-> the bucket afterwards]
BucketInsert(bucket, key, value) ==
    LET i == PosOf(bucket.list, key, 1)
    IN  IF i # 0
        THEN [ok |-> TRUE, bucket |-> [bucket EXCEPT !.list[i] = <<key, value>>]]
        ELSE IF IsFull(bucket)
        THEN [ok |-> FALSE, bucket |-> bucket]
        ELSE [ok |-> TRUE, bucket |-> [bucket EXCEPT !.list = Append(@, <<key, value>>)]]

TableState ==
    [dir |-> dir_, buckets |-> buckets, global_depth |-> global_depth_,
     num_buckets |-> num_buckets_]

HashState ==
    [dir |-> dir_, buckets |-> buckets, global_depth |-> global_depth_,
     num_buckets |-> num_buckets_, abs |-> abs]

\* ExtendibleHashTable::Find on the table t: the value found, or NoValue
TableFind(t, key) ==
    BucketFind(t.buckets[t.dir[IndexOf(key, t.global_depth) + 1]], key)

\* the redistribution loop copying an entry to the divide bucket without
\* removing it from the origin bucket
RECURSIVE Redistribute_Copy(_, _, _, _, _, _, _)
Redistribute_Copy(origin_items, i, ob, db, gd, local_mask, origin_index) ==
    IF i > Len(origin_items) THEN [origin |-> ob, divide |-> db]
    ELSE
      LET k == origin_items[i][1]
          v == origin_items[i][2]
      IN  IF BitAnd(IndexOf(k, gd), local_mask) # origin_index
          THEN Redistribute_Copy(origin_items, i + 1, ob,
                                 BucketInsert(db, k, v).bucket, gd, local_mask,
                                 origin_index)
          ELSE Redistribute_Copy(origin_items, i + 1, ob, db, gd, local_mask,
                                 origin_index)

\* the redistribution loop with the test inverted: it moves the entries that
\* belong to the origin bucket
RECURSIVE Redistribute_Inverted(_, _, _, _, _, _, _)
Redistribute_Inverted(origin_items, i, ob, db, gd, local_mask, origin_index) ==
    IF i > Len(origin_items) THEN [origin |-> ob, divide |-> db]
    ELSE
      LET k == origin_items[i][1]
          v == origin_items[i][2]
      IN  IF BitAnd(IndexOf(k, gd), local_mask) = origin_index
          THEN Redistribute_Inverted(origin_items, i + 1, BucketRemove(ob, k),
                            BucketInsert(db, k, v).bucket, gd, local_mask, origin_index)
          ELSE Redistribute_Inverted(origin_items, i + 1, ob, db, gd, local_mask, origin_index)

\* the redistribution loop comparing under the mask of the old local depth, so
\* that no entry ever moves
RECURSIVE Redistribute_Stay(_, _, _, _, _, _, _)
Redistribute_Stay(origin_items, i, ob, db, gd, local_mask, origin_index) ==
    IF i > Len(origin_items) THEN [origin |-> ob, divide |-> db]
    ELSE
      LET k == origin_items[i][1]
          v == origin_items[i][2]
      IN  IF BitAnd(IndexOf(k, gd), local_mask) # BitAnd(origin_index, local_mask \div 2)
          THEN Redistribute_Stay(origin_items, i + 1, BucketRemove(ob, k),
                            BucketInsert(db, k, v).bucket, gd, local_mask, origin_index)
          ELSE Redistribute_Stay(origin_items, i + 1, ob, db, gd, local_mask, origin_index)

\* the loop "for (const auto &[k, v] : origin_items)" of Insert, from item i on;
\* ob is the origin bucket, db the divide bucket
RECURSIVE Redistribute(_, _, _, _, _, _, _)
Redistribute(origin_items, i, ob, db, gd, local_mask, origin_index) ==
    IF i > Len(origin_items) THEN [origin |-> ob, divide |-> db]
    ELSE
      LET k == origin_items[i][1]
          v == origin_items[i][2]
      IN  IF BitAnd(IndexOf(k, gd), local_mask) # origin_index
          THEN Redistribute(origin_items, i + 1, BucketRemove(ob, k),
                            BucketInsert(db, k, v).bucket, gd, local_mask, origin_index)
          ELSE Redistribute(origin_items, i + 1, ob, db, gd, local_mask, origin_index)

\* SplitStep without num_buckets_++
SplitStep_NoCount(t, index) ==
    LET b  == t.dir[index + 1]
        doubling == t.buckets[b].depth = t.global_depth
        gd  == IF doubling THEN t.global_depth + 1 ELSE t.global_depth
        dir == IF doubling THEN t.dir \o t.dir ELSE t.dir
        depth == t.buckets[b].depth + 1
        local_mask   == 2 ^ depth - 1
        origin_index == BitAnd(index, local_mask)
        divide_index ==
            BitAnd(BitXor(origin_index, ShiftRight1(BitNot(local_mask))), local_mask)
        d  == Len(t.buckets) + 1
        origin_bucket == [t.buckets[b] EXCEPT !.depth = depth]
        divide_bucket == [size |-> bucket_size_, depth |-> depth, list |-> <<>>]
        moved == Redistribute(origin_bucket.list, 1, origin_bucket, divide_bucket,
                              gd, local_mask, origin_index)
    IN  [dir |-> [s \in 1..Len(dir) |->
                    IF BitAnd(s - 1, local_mask) = origin_index THEN b
                    ELSE IF BitAnd(s - 1, local_mask) = divide_index THEN d
                    ELSE dir[s]],
         buckets |-> Append([t.buckets EXCEPT ![b] = moved.origin], moved.divide),
         global_depth |-> gd,
         num_buckets |-> t.num_buckets]

\* SplitStep remapping only the two slots origin_index and divide_index, not
\* every slot that agrees with them under local_mask
SplitStep_RemapPair(t, index) ==
    LET b  == t.dir[index + 1]
        doubling == t.buckets[b].depth = t.global_depth
        gd  == IF doubling THEN t.global_depth + 1 ELSE t.global_depth
        dir == IF doubling THEN t.dir \o t.dir ELSE t.dir
        depth == t.buckets[b].depth + 1
        local_mask   == 2 ^ depth - 1
        origin_index == BitAnd(index, local_mask)
        divide_index ==
            BitAnd(BitXor(origin_index, ShiftRight1(BitNot(local_mask))), local_mask)
        d  == Len(t.buckets) + 1
        origin_bucket == [t.buckets[b] EXCEPT !.depth = depth]
        divide_bucket == [size |-> bucket_size_, depth |-> depth, list |-> <<>>]
        moved == Redistribute(origin_bucket.list, 1, origin_bucket, divide_bucket,
                              gd, local_mask, origin_index)
    IN  [dir |-> [s \in 1..Len(dir) |->
                    IF s - 1 = origin_index THEN b
                    ELSE IF s - 1 = divide_index THEN d
                    ELSE dir[s]],
         buckets |-> Append([t.buckets EXCEPT ![b] = moved.origin], moved.divide),
         global_depth |-> gd,
         num_buckets |-> t.num_buckets + 1]

\* SplitStep doubling the directory on every split
SplitStep_AlwaysDouble(t, index) ==
    LET b  == t.dir[index + 1]
        doubling == TRUE
        gd  == IF doubling THEN t.global_depth + 1 ELSE t.global_depth
        dir == IF doubling THEN t.dir \o t.dir ELSE t.dir
        depth == t.buckets[b].depth + 1
        local_mask   == 2 ^ depth - 1
        origin_index == BitAnd(index, local_mask)
        divide_index ==
            BitAnd(BitXor(origin_index, ShiftRight1(BitNot(local_mask))), local_mask)
        d  == Len(t.buckets) + 1
        origin_bucket == [t.buckets[b] EXCEPT !.depth = depth]
        divide_bucket == [size |-> bucket_size_, depth |-> depth, list |-> <<>>]
        moved == Redistribute(origin_bucket.list, 1, origin_bucket, divide_bucket,
                              gd, local_mask, origin_index)
    IN  [dir |-> [s \in 1..Len(dir) |->
                    IF BitAnd(s - 1, local_mask) = origin_index THEN b
                    ELSE IF BitAnd(s - 1, local_mask) = divide_index THEN d
                    ELSE dir[s]],
         buckets |-> Append([t.buckets EXCEPT ![b] = moved.origin], moved.divide),
         global_depth |-> gd,
         num_buckets |-> t.num_buckets + 1]

\* the body of the loop of Insert after Bucket::Insert returned false: the
\* directory doubling, the split of the bucket at dir[index] and the remapping
SplitStep(t, index) ==
    LET b  == t.dir[index + 1]
        doubling == t.buckets[b].depth = t.global_depth
        gd  == IF doubling THEN t.global_depth + 1 ELSE t.global_depth
        dir == IF doubling THEN t.dir \o t.dir ELSE t.dir
        depth == t.buckets[b].depth + 1
        local_mask   == 2 ^ depth - 1
        origin_index == BitAnd(index, local_mask)
        divide_index ==
            BitAnd(BitXor(origin_index, ShiftRight1(BitNot(local_mask))), local_mask)
        d  == Len(t.buckets) + 1
        origin_bucket == [t.buckets[b] EXCEPT !.depth = depth]
        divide_bucket == [size |-> bucket_size_, depth |-> depth, list |-> <<>>]
        moved == Redistribute(origin_bucket.list, 1, origin_bucket, divide_bucket,
                              gd, local_mask, origin_index)
    IN  [dir |-> [s \in 1..Len(dir) |->
                    IF BitAnd(s - 1, local_mask) = origin_index THEN b
                    ELSE IF BitAnd(s - 1, local_mask) = divide_index THEN d
                    ELSE dir[s]],
         buckets |-> Append([t.buckets EXCEPT ![b] = moved.origin], moved.divide),
         global_depth |-> gd,
         num_buckets |-> t.num_buckets + 1]

\* the while (true) loop of Insert: [done |-> the call returned, table |-> the
\* table it left]; done is FALSE when the loop would pass MaxGlobalDepth
RECURSIVE InsertLoop(_, _, _)
InsertLoop(t, key, value) ==
    LET index == IndexOf(key, t.global_depth)
        b == t.dir[index + 1]
        r == BucketInsert(t.buckets[b], key, value)
    IN  IF r.ok
        THEN [done |-> TRUE, table |-> [t EXCEPT !.buckets[b] = r.bucket]]
        ELSE IF t.buckets[b].depth = t.global_depth /\ t.global_depth >= MaxGlobalDepth
        THEN [done |-> FALSE, table |-> t]
        ELSE InsertLoop(SplitStep(t, index), key, value)

\* the calls of scenario H1 of the specification, in order
H1Script == <<<<"Insert", 0, 0>>, <<"Insert", 4, 4>>, <<"Insert", 2, 2>>>>

\* `scenario' after one more call: n while the calls made since construction
\* are exactly the first n calls of H1Script, -1 from then on
Followed(call) ==
    IF scenario >= 0 /\ scenario < Len(H1Script) /\ H1Script[scenario + 1] = call
    THEN scenario + 1
    ELSE -1

Insert(key, value) ==
    \E r \in {InsertLoop(TableState, key, value)} :
      /\ r.done
      /\ pre' = HashState
      /\ last' = [op |-> "Insert", key |-> key, value |-> value, ret |-> NoValue]
      /\ dir_' = r.table.dir
      /\ buckets' = r.table.buckets
      /\ global_depth_' = r.table.global_depth
      /\ num_buckets_' = r.table.num_buckets
      /\ abs' = [abs EXCEPT ![key] = value]
      /\ scenario' = Followed(<<"Insert", key, value>>)
      /\ UNCHANGED <<bucket_size_, replacerVars, threadVars>>

EHT_Remove(key) ==
    LET b == dir_[IndexOf(key, global_depth_) + 1]
        found == BucketFind(buckets[b], key) # NoValue
    IN  /\ pre' = HashState
        /\ last' = [op |-> "Remove", key |-> key, value |-> NoValue, ret |-> found]
        /\ buckets' = IF found
                      THEN [buckets EXCEPT ![b] = BucketRemove(@, key)]
                      ELSE buckets
        /\ abs' = [abs EXCEPT ![key] = NoValue]
        /\ scenario' = Followed(<<"Remove", key, NoValue>>)
        /\ UNCHANGED <<dir_, global_depth_, num_buckets_, bucket_size_, replacerVars, threadVars>>

----------------------------------------------------------------------------
(* Threads sharing one instance: every public operation takes the instance's
   mutex in its first statement and releases it when it returns; between the
   two, the statements of the operation are separate steps *)

\* the frame of a call of the table: its arguments and the locals of Insert
TableFrame(op, key, value) ==
    [op |-> op, key |-> key, value |-> value, ret |-> NoValue,
     index |-> 0, b |-> 0, d |-> 0, primary_dir_len |-> 0, local_mask |-> 0,
     origin_index |-> 0, divide_index |-> 0, origin_items |-> <<>>, i |-> 0]

\* the calls a thread can make on the table
TableCalls ==
    UNION {{TableFrame("Insert", key, value) : value \in ValuesOf(key)} : key \in ThreadKeys}
    \cup {TableFrame(op, key, NoValue) : op \in {"Find", "Remove"}, key \in ThreadKeys}
    \cup {TableFrame(op, 0, NoValue) :
            op \in {"GetGlobalDepth", "GetLocalDepth", "GetNumBuckets"}}

\* a lock that does not wait for the holder of the mutex
Lock_NoWait(t, call) ==
    /\ pc[t] = "idle"
    /\ latch_' = t
    /\ pc' = [pc EXCEPT ![t] = call.op]
    /\ frame' = [frame EXCEPT ![t] = call]
    /\ pre' = IF instance = "table" THEN HashState ELSE ReplacerState
    /\ UNCHANGED <<tableVars, scenario, replacerVars, instance, last>>

\* std::scoped_lock<std::mutex> locker(latch_) in the table and
\* std::lock_guard<std::mutex> guard(latch_) in the replacer: the first
\* statement of every public operation; the thread waits while the mutex is held
Lock(t, call) ==
    /\ pc[t] = "idle"
    /\ latch_ = 0
    /\ latch_' = t
    /\ pc' = [pc EXCEPT ![t] = call.op]
    /\ frame' = [frame EXCEPT ![t] = call]
    /\ pre' = IF instance = "table" THEN HashState ELSE ReplacerState
    /\ UNCHANGED <<tableVars, scenario, replacerVars, instance, last>>

\* Insert, lines 98-106: index, bucket and the attempt bucket->Insert
InsertTry(t) ==
    /\ pc[t] = "Insert"
    /\ LET index == IndexOf(frame[t].key, global_depth_) IN
         IF index + 1 > Len(dir_)
         THEN /\ pc' = [pc EXCEPT ![t] = "return"]
              /\ frame' = [frame EXCEPT ![t].ret = OutOfRange]
              /\ UNCHANGED buckets
         ELSE LET b == dir_[index + 1]
                  r == BucketInsert(buckets[b], frame[t].key, frame[t].value)
              IN  IF r.ok
                  THEN /\ buckets' = [buckets EXCEPT ![b] = r.bucket]
                       /\ pc' = [pc EXCEPT ![t] = "return"]
                       /\ UNCHANGED frame
                  ELSE /\ pc' = [pc EXCEPT ![t] = "grow"]
                       /\ frame' = [frame EXCEPT ![t].index = index, ![t].b = b]
                       /\ UNCHANGED buckets
    /\ UNCHANGED <<dir_, global_depth_, num_buckets_, bucket_size_, abs, scenario,
                   replacerVars, latch_, instance, last, pre>>

\* Insert, lines 109-113: the test of the local depth and global_depth_++
InsertGrow(t) ==
    /\ pc[t] = "grow"
    /\ IF buckets[frame[t].b].depth = global_depth_
       THEN /\ global_depth_ < MaxGlobalDepth
            /\ global_depth_' = global_depth_ + 1
            /\ frame' = [frame EXCEPT ![t].primary_dir_len = Len(dir_)]
            /\ pc' = [pc EXCEPT ![t] = "double"]
       ELSE /\ pc' = [pc EXCEPT ![t] = "split"]
            /\ UNCHANGED <<global_depth_, frame>>
    /\ UNCHANGED <<dir_, buckets, num_buckets_, bucket_size_, abs, scenario,
                   replacerVars, latch_, instance, last, pre>>

\* Insert, lines 117-119: the directory is extended by its first
\* primary_dir_len slots
InsertDouble(t) ==
    /\ pc[t] = "double"
    /\ dir_' = dir_ \o SubSeq(dir_, 1, frame[t].primary_dir_len)
    /\ pc' = [pc EXCEPT ![t] = "split"]
    /\ UNCHANGED <<buckets, global_depth_, num_buckets_, bucket_size_, abs, scenario,
                   replacerVars, latch_, frame, instance, last, pre>>

\* Insert, lines 123-134: IncrementDepth, the masks, the new bucket,
\* num_buckets_++ and the copy of the origin bucket's items
InsertSplit(t) ==
    /\ pc[t] = "split"
    /\ LET b == frame[t].b
           depth == buckets[b].depth + 1
           local_mask == 2 ^ depth - 1
           origin_index == BitAnd(frame[t].index, local_mask)
           divide_index ==
               BitAnd(BitXor(origin_index, ShiftRight1(BitNot(local_mask))), local_mask)
       IN  /\ buckets' = Append([buckets EXCEPT ![b].depth = depth],
                                [size |-> bucket_size_, depth |-> depth, list |-> <<>>])
           /\ num_buckets_' = num_buckets_ + 1
           /\ frame' = [frame EXCEPT ![t].d = Len(buckets) + 1,
                                     ![t].local_mask = local_mask,
                                     ![t].origin_index = origin_index,
                                     ![t].divide_index = divide_index,
                                     ![t].origin_items = buckets[b].list,
                                     ![t].i = 1]
    /\ pc' = [pc EXCEPT ![t] = "move"]
    /\ UNCHANGED <<dir_, global_depth_, bucket_size_, abs, scenario, replacerVars,
                   latch_, instance, last, pre>>

\* Insert, lines 136-141: one iteration of the loop over origin_items
InsertMove(t) ==
    /\ pc[t] = "move"
    /\ frame[t].i <= Len(frame[t].origin_items)
    /\ LET k == frame[t].origin_items[frame[t].i][1]
           v == frame[t].origin_items[frame[t].i][2]
           b == frame[t].b
           d == frame[t].d
       IN  IF BitAnd(IndexOf(k, global_depth_), frame[t].local_mask) # frame[t].origin_index
           THEN buckets' = [buckets EXCEPT ![b] = BucketRemove(@, k),
                                           ![d] = BucketInsert(@, k, v).bucket]
           ELSE UNCHANGED buckets
    /\ frame' = [frame EXCEPT ![t].i = @ + 1]
    /\ UNCHANGED <<dir_, global_depth_, num_buckets_, bucket_size_, abs, scenario,
                   replacerVars, latch_, pc, instance, last, pre>>

\* Insert, lines 144-152: the directory is remapped, then the loop starts over
InsertRemap(t) ==
    /\ pc[t] = "move"
    /\ frame[t].i > Len(frame[t].origin_items)
    /\ dir_' = [s \in 1..Len(dir_) |->
                  IF BitAnd(s - 1, frame[t].local_mask) = frame[t].origin_index
                  THEN frame[t].b
                  ELSE IF BitAnd(s - 1, frame[t].local_mask) = frame[t].divide_index
                  THEN frame[t].d
                  ELSE dir_[s]]
    /\ pc' = [pc EXCEPT ![t] = "Insert"]
    /\ UNCHANGED <<buckets, global_depth_, num_buckets_, bucket_size_, abs, scenario,
                   replacerVars, latch_, frame, instance, last, pre>>

\* the body of Find, lines 77
FindBody(t) ==
    /\ pc[t] = "Find"
    /\ LET index == IndexOf(frame[t].key, global_depth_) IN
         frame' = [frame EXCEPT ![t].ret =
                     IF index + 1 > Len(dir_) THEN OutOfRange
                     ELSE BucketFind(buckets[dir_[index + 1]], frame[t].key)]
    /\ pc' = [pc EXCEPT ![t] = "return"]
    /\ UNCHANGED <<tableVars, scenario, replacerVars, latch_, instance, last, pre>>

\* the body of Remove, lines 84-89; ret is 1 for true and 0 for false
RemoveBody(t) ==
    /\ instance = "table"
    /\ pc[t] = "Remove"
    /\ LET index == IndexOf(frame[t].key, global_depth_) IN
         IF index + 1 > Len(dir_)
         THEN /\ frame' = [frame EXCEPT ![t].ret = OutOfRange]
              /\ UNCHANGED buckets
         ELSE LET b == dir_[index + 1] IN
              IF BucketFind(buckets[b], frame[t].key) = NoValue
              THEN /\ frame' = [frame EXCEPT ![t].ret = 0]
                   /\ UNCHANGED buckets
              ELSE /\ frame' = [frame EXCEPT ![t].ret = 1]
                   /\ buckets' = [buckets EXCEPT ![b] = BucketRemove(@, frame[t].key)]
    /\ pc' = [pc EXCEPT ![t] = "return"]
    /\ UNCHANGED <<dir_, global_depth_, num_buckets_, bucket_size_, abs, scenario,
                   replacerVars, latch_, instance, last, pre>>

\* the bodies of GetGlobalDepth, GetLocalDepth(0) and GetNumBuckets
GetBody(t) ==
    /\ pc[t] \in {"GetGlobalDepth", "GetLocalDepth", "GetNumBuckets"}
    /\ frame' = [frame EXCEPT ![t].ret =
                   IF pc[t] = "GetGlobalDepth" THEN global_depth_
                   ELSE IF pc[t] = "GetLocalDepth" THEN buckets[dir_[1]].depth
                   ELSE num_buckets_]
    /\ pc' = [pc EXCEPT ![t] = "return"]
    /\ UNCHANGED <<tableVars, scenario, replacerVars, latch_, instance, last, pre>>

\* the frame of a call of the replacer; victim is the frame being erased
ReplacerFrame(op, arg, flag) ==
    [op |-> op, arg |-> arg, flag |-> flag, ret |-> NoFrame, victim |-> NoFrame]

\* the calls a thread can make on the replacer
ReplacerCalls ==
    {ReplacerFrame(op, NoFrame, FALSE) : op \in {"Evict", "Size"}}
    \cup {ReplacerFrame(op, f, FALSE) : op \in {"RecordAccess", "Remove"}, f \in ThreadFrames}
    \cup {ReplacerFrame("SetEvictable", f, b) : f \in ThreadFrames, b \in BOOLEAN}

\* Evict, lines 10-74: the loop over access_history_ and *frame_id = victim_id
EvictLoop(t) ==
    /\ pc[t] = "Evict"
    /\ \E order \in Orders(Tracked(access_history_)) :
         LET victim_id == EvictVictim(order) IN
           /\ frame' = [frame EXCEPT ![t].ret = victim_id, ![t].victim = victim_id]
           /\ pc' = [pc EXCEPT ![t] = IF victim_id = NoFrame THEN "return" ELSE "erase"]
    /\ UNCHANGED <<replacerVars, hashVars, latch_, instance, last, pre>>

\* Remove, line 133: the test of the frame
RemoveTest(t) ==
    /\ instance = "replacer"
    /\ pc[t] = "Remove"
    /\ frame' = [frame EXCEPT ![t].victim = frame[t].arg]
    /\ pc' = [pc EXCEPT ![t] =
                IF access_history_[frame[t].arg] # <<>> /\ evictable_[frame[t].arg]
                THEN "erase" ELSE "return"]
    /\ UNCHANGED <<replacerVars, hashVars, latch_, instance, last, pre>>

\* access_history_.erase, line 78 of Evict and line 135 of Remove
EraseHistory(t) ==
    /\ pc[t] = "erase"
    /\ access_history_' = [access_history_ EXCEPT ![frame[t].victim] = <<>>]
    /\ pc' = [pc EXCEPT ![t] = "unflag"]
    /\ UNCHANGED <<evictable_, current_timestamp_, curr_size_, replacer_size_, k_,
                   hashVars, latch_, frame, instance, last, pre>>

\* evictable_[...] = false, line 79 of Evict and line 136 of Remove
ClearEvictable(t) ==
    /\ pc[t] = "unflag"
    /\ evictable_' = [evictable_ EXCEPT ![frame[t].victim] = FALSE]
    /\ pc' = [pc EXCEPT ![t] = "decrement"]
    /\ UNCHANGED <<access_history_, current_timestamp_, curr_size_, replacer_size_, k_,
                   hashVars, latch_, frame, instance, last, pre>>

\* curr_size_--, line 80 of Evict and line 137 of Remove
DecrementSize(t) ==
    /\ pc[t] = "decrement"
    /\ curr_size_' = curr_size_ - 1
    /\ pc' = [pc EXCEPT ![t] = "return"]
    /\ UNCHANGED <<access_history_, evictable_, current_timestamp_, replacer_size_, k_,
                   hashVars, latch_, frame, instance, last, pre>>

\* RecordAccess, lines 90-95: the timestamp is pushed onto the history
RecordPush(t) ==
    /\ pc[t] = "RecordAccess"
    /\ current_timestamp_ < MaxClock
    /\ access_history_' =
         [access_history_ EXCEPT ![frame[t].arg] = Append(@, current_timestamp_)]
    /\ pc' = [pc EXCEPT ![t] = "tick"]
    /\ UNCHANGED <<evictable_, current_timestamp_, curr_size_, replacer_size_, k_,
                   hashVars, latch_, frame, instance, last, pre>>

\* RecordAccess, line 98: current_timestamp_++
RecordTick(t) ==
    /\ pc[t] = "tick"
    /\ current_timestamp_' = current_timestamp_ + 1
    /\ pc' = [pc EXCEPT ![t] = "return"]
    /\ UNCHANGED <<access_history_, evictable_, curr_size_, replacer_size_, k_,
                   hashVars, latch_, frame, instance, last, pre>>

\* SetEvictable, lines 105-113: the two tests and the write of the flag
SetFlag(t) ==
    /\ pc[t] = "SetEvictable"
    /\ IF access_history_[frame[t].arg] # <<>>
          /\ evictable_[frame[t].arg] # frame[t].flag
       THEN /\ evictable_' = [evictable_ EXCEPT ![frame[t].arg] = frame[t].flag]
            /\ pc' = [pc EXCEPT ![t] = "count"]
       ELSE /\ pc' = [pc EXCEPT ![t] = "return"]
            /\ UNCHANGED evictable_
    /\ UNCHANGED <<access_history_, current_timestamp_, curr_size_, replacer_size_, k_,
                   hashVars, latch_, frame, instance, last, pre>>

\* SetEvictable, lines 114-118: curr_size_++ or curr_size_--
SetCount(t) ==
    /\ pc[t] = "count"
    /\ curr_size_' = IF frame[t].flag THEN curr_size_ + 1 ELSE curr_size_ - 1
    /\ pc' = [pc EXCEPT ![t] = "return"]
    /\ UNCHANGED <<access_history_, evictable_, current_timestamp_, replacer_size_, k_,
                   hashVars, latch_, frame, instance, last, pre>>

\* the body of Size, lines 154-162
SizeBody(t) ==
    /\ pc[t] = "Size"
    /\ frame' = [frame EXCEPT ![t].ret = Size]
    /\ pc' = [pc EXCEPT ![t] = "return"]
    /\ UNCHANGED <<replacerVars, hashVars, latch_, instance, last, pre>>

\* the return of a call: the destructor of the lock releases the mutex
Return(t) ==
    /\ pc[t] = "return"
    /\ latch_' = 0
    /\ pc' = [pc EXCEPT ![t] = "idle"]
    /\ last' = IF instance = "table"
               THEN [op |-> frame[t].op, key |-> frame[t].key,
                     value |-> frame[t].value, ret |-> frame[t].ret, by |-> t]
               ELSE [op |-> frame[t].op, arg |-> frame[t].arg,
                     flag |-> frame[t].flag, ret |-> frame[t].ret, by |-> t]
    /\ abs' = IF instance = "table" /\ frame[t].op = "Insert" /\ frame[t].ret # OutOfRange
              THEN [abs EXCEPT ![frame[t].key] = frame[t].value]
              ELSE IF instance = "table" /\ frame[t].op = "Remove"
                      /\ frame[t].ret # OutOfRange
              THEN [abs EXCEPT ![frame[t].key] = NoValue]
              ELSE abs
    /\ frame' = [frame EXCEPT ![t] = [op |-> "none"]]
    /\ UNCHANGED <<dir_, buckets, global_depth_, num_buckets_, bucket_size_, scenario,
                   replacerVars, instance, pre>>

----------------------------------------------------------------------------
(* Initial states *)

ReplacerInit ==
    /\ access_history_ = [f \in FrameIds |-> <<>>]
    /\ evictable_ = [f \in FrameIds |-> FALSE]
    /\ current_timestamp_ = 0
    /\ curr_size_ = 0
    /\ replacer_size_ = MaxFrames
    /\ k_ \in 1..MaxK

\* the threads that share one instance are 1..NumThreads
NumThreads == 2

Threads == 1..NumThreads

\* no thread has called yet
ThreadInit ==
    /\ latch_ = 0
    /\ pc = [t \in Threads |-> "idle"]
    /\ frame = [t \in Threads |-> [op |-> "none"]]

\* num_buckets_ after construction
InitialNumBuckets == 1

HashInit ==
    /\ bucket_size_ \in 1..MaxBucketSize
    /\ dir_ = <<1>>
    /\ buckets = <<[size |-> bucket_size_, depth |-> 0, list |-> <<>>]>>
    /\ global_depth_ = 0
    /\ num_buckets_ = InitialNumBuckets
    /\ abs = [key \in Keys |-> NoValue]
    /\ scenario = 0

\* the replacer in use; the hash table stays as constructed
InitReplacer ==
    /\ ReplacerInit
    /\ HashInit
    /\ bucket_size_ = 1
    /\ ThreadInit
    /\ instance = "replacer"
    /\ last = [op |-> "new", arg |-> NoFrame, flag |-> FALSE, ret |-> NoFrame]
    /\ pre = ReplacerState

\* the hash table in use; the replacer stays as constructed
InitHash ==
    /\ ReplacerInit
    /\ k_ = 1
    /\ HashInit
    /\ ThreadInit
    /\ instance = "table"
    /\ last = [op |-> "new", key |-> NoValue, value |-> NoValue, ret |-> NoValue]
    /\ pre = HashState

NextHash ==
    \/ \E key \in Keys : \E value \in ValuesOf(key) : Insert(key, value)
    \/ \E key \in Keys : EHT_Remove(key)

SpecHash == InitHash /\ [][NextHash]_vars

NextReplacer ==
    \/ Evict
    \/ \E f \in FrameIds : RecordAccess(f)
    \/ \E f \in FrameIds, b \in BOOLEAN : SetEvictable(f, b)
    \/ \E f \in FrameIds : LRUK_Remove(f)

SpecReplacer == InitReplacer /\ [][NextReplacer]_vars

\* the calls the threads make on the instance they share
Calls == IF instance = "table" THEN TableCalls ELSE ReplacerCalls

\* threads sharing one hash table, or one replacer
InitThreads ==
    /\ ReplacerInit
    /\ HashInit
    /\ ThreadInit
    /\ instance \in {"table", "replacer"}
    /\ IF instance = "table"
       THEN /\ k_ = 1
            /\ last = [op |-> "new", key |-> NoValue, value |-> NoValue, ret |-> NoValue]
            /\ pre = HashState
       ELSE /\ bucket_size_ = 1
            /\ last = [op |-> "new", arg |-> NoFrame, flag |-> FALSE, ret |-> NoFrame]
            /\ pre = ReplacerState

NextThreads ==
    \/ \E t \in Threads : \E call \in Calls : Lock(t, call)
    \/ \E t \in Threads : InsertTry(t)
    \/ \E t \in Threads : InsertGrow(t)
    \/ \E t \in Threads : InsertDouble(t)
    \/ \E t \in Threads : InsertSplit(t)
    \/ \E t \in Threads : InsertMove(t)
    \/ \E t \in Threads : InsertRemap(t)
    \/ \E t \in Threads : FindBody(t)
    \/ \E t \in Threads : RemoveBody(t)
    \/ \E t \in Threads : GetBody(t)
    \/ \E t \in Threads : EvictLoop(t)
    \/ \E t \in Threads : RemoveTest(t)
    \/ \E t \in Threads : EraseHistory(t)
    \/ \E t \in Threads : ClearEvictable(t)
    \/ \E t \in Threads : DecrementSize(t)
    \/ \E t \in Threads : RecordPush(t)
    \/ \E t \in Threads : RecordTick(t)
    \/ \E t \in Threads : SetFlag(t)
    \/ \E t \in Threads : SetCount(t)
    \/ \E t \in Threads : SizeBody(t)
    \/ \E t \in Threads : Return(t)

SpecThreads == InitThreads /\ [][NextThreads]_vars

----------------------------------------------------------------------------
(* Properties of the replacer, stated over the last call and its pre-state *)

\* frames that were tracked and evictable when the last call started
PreEvictable ==
    {f \in FrameIds : pre.access_history[f] # <<>> /\ pre.evictable[f]}

\* those of them with fewer than K recorded accesses (infinite K-distance)
PreInfinite == {f \in PreEvictable : Len(pre.access_history[f]) < k_}

\* Size() as it was when the last call started
PreSize == Cardinality({f \in FrameIds : pre.evictable[f]})

PreFirst(f) == pre.access_history[f][1]

PreBack(f) == pre.access_history[f][Len(pre.access_history[f])]

\* backward K-distance of a frame with at least K accesses, at the last call
PreKDistance(f) ==
    pre.current_timestamp - pre.access_history[f][Len(pre.access_history[f]) - k_ + 1]

\* C1: whenever some evictable frame has fewer than K accesses, Evict returns
\* the evictable frame with fewer than K accesses whose first timestamp is
\* smallest, whatever the traversal order of the frame map.
C1_EvictInfiniteOldestFirst ==
    (last.op = "Evict" /\ PreInfinite # {}) =>
        /\ last.ret \in PreInfinite
        /\ \A g \in PreInfinite : PreFirst(last.ret) <= PreFirst(g)

\* C3: when every evictable frame has at least K accesses, Evict returns the
\* one with the greatest backward K-distance, ties going to the oldest last
\* access, whatever the traversal order.
C3_EvictGreatestKDistance ==
    (last.op = "Evict" /\ PreEvictable # {} /\ PreInfinite = {}) =>
        /\ last.ret \in PreEvictable
        /\ \A g \in PreEvictable \ {last.ret} :
              \/ PreKDistance(last.ret) > PreKDistance(g)
              \/ /\ PreKDistance(last.ret) = PreKDistance(g)
                 /\ PreBack(last.ret) < PreBack(g)

\* an all-finite Evict with K = 2 that chose between several frames and did
\* not take the least recently used one
C3_Witness ==
    /\ last.op = "Evict"
    /\ k_ = 2
    /\ PreInfinite = {}
    /\ Cardinality(PreEvictable) >= 2
    /\ last.ret \in PreEvictable
    /\ \E g \in PreEvictable : PreBack(g) < PreBack(last.ret)

\* C4: Evict returns a frame exactly when some tracked frame is evictable
\* (none only when Size() = 0), and the frame returned was evictable.
C4_EvictOnlyEvictable ==
    (last.op = "Evict") =>
        /\ (last.ret # NoFrame) <=> (PreEvictable # {})
        /\ (last.ret = NoFrame) <=> (PreSize = 0)
        /\ (last.ret # NoFrame) => last.ret \in PreEvictable

\* an Evict that returned a frame while another tracked frame was pinned
C4_Witness ==
    /\ last.op = "Evict"
    /\ last.ret # NoFrame
    /\ \E f \in FrameIds : pre.access_history[f] # <<>> /\ ~pre.evictable[f]

\* C5: Size() is the number of frames with a history and evictable = true, no
\* flag is true for a frame without history, and each successful Evict or
\* Remove lowers Size() by exactly one.
C5_SizeEquation ==
    /\ Size = Cardinality({f \in FrameIds : access_history_[f] # <<>> /\ evictable_[f]})
    /\ \A f \in FrameIds : evictable_[f] => access_history_[f] # <<>>
    /\ (last.op = "Evict" /\ last.ret # NoFrame) => Size = PreSize - 1
    /\ (last.op = "Remove" /\ last.arg \in PreEvictable) => Size = PreSize - 1

\* a Remove that took an evictable frame out while another stayed evictable
C5_Witness ==
    /\ last.op = "Remove"
    /\ last.arg \in PreEvictable
    /\ access_history_[last.arg] = <<>>
    /\ Size >= 1

\* C6: Size() never exceeds the num_frames given at construction.
C6_SizeWithinCapacity ==
    0 <= Size /\ Size <= replacer_size_

\* C9: Remove of a frame that is untracked, or tracked but not evictable,
\* changes neither histories, flags, clock nor Size().
C9_RemoveNoOp ==
    (last.op = "Remove" /\ last.arg \notin PreEvictable) =>
        /\ access_history_ = pre.access_history
        /\ evictable_ = pre.evictable
        /\ current_timestamp_ = pre.current_timestamp
        /\ Size = PreSize

\* a Remove called on a pinned frame that has a history
C9_Witness ==
    /\ last.op = "Remove"
    /\ pre.access_history[last.arg] # <<>>
    /\ ~pre.evictable[last.arg]
    /\ access_history_[last.arg] # <<>>

\* C10: SetEvictable(F, flag) changes nothing for a frame without history;
\* for a tracked frame it leaves evictable(F) = flag, every other flag as it
\* was, and Size() moved by +1, -1 or 0 as the flag went false->true,
\* true->false or stayed; so a repeated call changes nothing.
C10_SetEvictableEffect ==
    (last.op = "SetEvictable") =>
        /\ access_history_ = pre.access_history
        /\ current_timestamp_ = pre.current_timestamp
        /\ IF pre.access_history[last.arg] = <<>>
           THEN evictable_ = pre.evictable /\ Size = PreSize
           ELSE /\ evictable_[last.arg] = last.flag
                /\ \A g \in FrameIds \ {last.arg} : evictable_[g] = pre.evictable[g]
                /\ Size = PreSize
                          + (IF ~pre.evictable[last.arg] /\ last.flag THEN 1 ELSE 0)
                          - (IF pre.evictable[last.arg] /\ ~last.flag THEN 1 ELSE 0)
                /\ (pre.evictable[last.arg] = last.flag) =>
                       (evictable_ = pre.evictable /\ Size = PreSize)

\* SetEvictable(F, true) repeated on a frame that is already evictable
C10_Witness ==
    /\ last.op = "SetEvictable"
    /\ last.flag
    /\ pre.access_history[last.arg] # <<>>
    /\ pre.evictable[last.arg]
    /\ Size = PreSize
    /\ Size >= 1

\* C11: a frame that left the replacer (returned by Evict, or removed while
\* evictable) has no history and is not evictable; a later RecordAccess starts
\* it afresh with exactly one timestamp and the flag false, and only
\* SetEvictable(F, true) makes it evictable again (scenario R4 included).
C11_LeftFrameStartsAfresh ==
    /\ (last.op = "Evict" /\ last.ret # NoFrame) =>
          access_history_[last.ret] = <<>> /\ ~evictable_[last.ret]
    /\ (last.op = "Remove" /\ last.arg \in PreEvictable) =>
          access_history_[last.arg] = <<>> /\ ~evictable_[last.arg]
    /\ (last.op = "RecordAccess" /\ pre.access_history[last.arg] = <<>>) =>
          /\ access_history_[last.arg] = <<pre.current_timestamp>>
          /\ ~evictable_[last.arg]
    /\ \A f \in FrameIds :
          /\ access_history_[f] = <<>> => ~evictable_[f]
          /\ (evictable_[f] /\ ~pre.evictable[f]) =>
                (last.op = "SetEvictable" /\ last.arg = f /\ last.flag)
    /\ (scenario = Len(R4Script)) =>
          Len(access_history_[0]) = 1 /\ ~evictable_[0] /\ Size = 0

\* the end of scenario R4: frame 0 recorded, made evictable, removed and
\* recorded again
C11_Witness ==
    /\ scenario = Len(R4Script)
    /\ last.op = "RecordAccess"
    /\ last.arg = 0
    /\ pre.access_history[0] = <<>>
    /\ access_history_[0] = <<1>>

\* C12: RecordAccess(F) appends the clock value to hist(F), advances the clock
\* by one and changes no flag and no other history; every history is strictly
\* increasing, timestamps are distinct across frames and below the clock.
C12_RecordAccessEffect ==
    /\ (last.op = "RecordAccess") =>
          /\ access_history_[last.arg] =
                 Append(pre.access_history[last.arg], pre.current_timestamp)
          /\ current_timestamp_ = pre.current_timestamp + 1
          /\ evictable_ = pre.evictable
          /\ \A g \in FrameIds \ {last.arg} :
                access_history_[g] = pre.access_history[g]
    /\ \A f \in FrameIds :
          /\ \A i, j \in 1..Len(access_history_[f]) :
                i < j => access_history_[f][i] < access_history_[f][j]
          /\ \A i \in 1..Len(access_history_[f]) :
                access_history_[f][i] < current_timestamp_
          /\ \A g \in FrameIds \ {f} :
                \A i \in 1..Len(access_history_[f]), j \in 1..Len(access_history_[g]) :
                    access_history_[f][i] # access_history_[g][j]

\* a RecordAccess on a frame that already had a history, another frame being
\* tracked and evictable
C12_Witness ==
    /\ last.op = "RecordAccess"
    /\ Len(access_history_[last.arg]) >= 2
    /\ \E g \in FrameIds \ {last.arg} : access_history_[g] # <<>> /\ evictable_[g]

----------------------------------------------------------------------------
(* Properties of the hash table *)

\* number of entries stored in the buckets 1..n of bs
RECURSIVE EntryCount(_, _)
EntryCount(bs, n) ==
    IF n = 0 THEN 0 ELSE Len(bs[n].list) + EntryCount(bs, n - 1)

\* the keys of a bucket list, in order
KeysOf(list) == [i \in 1..Len(list) |-> list[i][1]]

\* C2: the table is a key -> value map: Find(k) returns the value of the last
\* Insert(k, v) not followed by Remove(k) and is absent otherwise, Remove(k)
\* returns true exactly when k was bound (so a repeated Remove returns false),
\* and the buckets hold exactly one entry per bound key across splits.
C2_TableIsMap ==
    /\ \A key \in Keys : TableFind(TableState, key) = abs[key]
    /\ EntryCount(buckets, Len(buckets)) = Cardinality({key \in Keys : abs[key] # NoValue})
    /\ (last.op = "Remove") =>
          /\ last.ret <=> (pre.abs[last.key] # NoValue)
          /\ TableFind(TableState, last.key) = NoValue

\* a Remove that returned true on a table that has doubled twice and still
\* holds other keys
C2_Witness ==
    /\ last.op = "Remove"
    /\ last.ret
    /\ global_depth_ >= 2
    /\ Len(buckets) >= 3
    /\ \E key \in Keys : abs[key] # NoValue /\ TableFind(TableState, key) = abs[key]

\* C7 as stated: scenario H1 (capacity 2, Insert (0,0), (4,4), (2,2) on a
\* fresh table) ends with GlobalDepth() = 2, NumBuckets() = 2 and Find(4) = 4.
C7_ScenarioH1_TwoBuckets ==
    (scenario = Len(H1Script) /\ bucket_size_ = 2) =>
        /\ global_depth_ = 2
        /\ num_buckets_ = 2
        /\ TableFind(TableState, 4) = 4

\* C7, amended: scenario H1 ends with GlobalDepth() = 2, NumBuckets() = 3 (the
\* two splits each add a bucket) and Find(4) = 4.
C7_ScenarioH1 ==
    (scenario = Len(H1Script) /\ bucket_size_ = 2) =>
        /\ global_depth_ = 2
        /\ num_buckets_ = 3
        /\ TableFind(TableState, 4) = 4

\* the end of scenario H1
C7_Witness ==
    /\ scenario = Len(H1Script)
    /\ bucket_size_ = 2
    /\ last = [op |-> "Insert", key |-> 2, value |-> 2, ret |-> NoValue]
    /\ pre.global_depth = 0
    /\ Len(dir_) = 4

\* C8: Insert(k, v) for a key that is already bound only replaces its value:
\* global depth, directory, local depths, NumBuckets() and every other entry
\* are unchanged, even when the bucket of k is full.
C8_OverwriteInPlace ==
    (last.op = "Insert" /\ TableFind(pre, last.key) # NoValue) =>
        /\ global_depth_ = pre.global_depth
        /\ dir_ = pre.dir
        /\ num_buckets_ = pre.num_buckets
        /\ Len(buckets) = Len(pre.buckets)
        /\ \A b \in 1..Len(buckets) :
              /\ buckets[b].depth = pre.buckets[b].depth
              /\ KeysOf(buckets[b].list) = KeysOf(pre.buckets[b].list)
              /\ \A i \in 1..Len(buckets[b].list) :
                    buckets[b].list[i][2] =
                        IF buckets[b].list[i][1] = last.key THEN last.value
                        ELSE pre.buckets[b].list[i][2]

\* an Insert that gave a new value to a key sitting in a full bucket
C8_Witness ==
    /\ last.op = "Insert"
    /\ TableFind(pre, last.key) # NoValue
    /\ TableFind(pre, last.key) # last.value
    /\ IsFull(pre.buckets[pre.dir[IndexOf(last.key, pre.global_depth) + 1]])
    /\ TableFind(TableState, last.key) = last.value

\* the buckets the directory references
DirBuckets == {dir_[s] : s \in 1..Len(dir_)}

\* the 0-based slots of the directory that reference bucket n
SlotsOf(n) == {s \in 0..(Len(dir_) - 1) : dir_[s + 1] = n}

\* how often the key occurs in the buckets 1..n of bs
RECURSIVE Occurrences(_, _, _)
Occurrences(bs, n, key) ==
    IF n = 0 THEN 0
    ELSE Cardinality({i \in 1..Len(bs[n].list) : bs[n].list[i][1] = key})
         + Occurrences(bs, n - 1, key)

\* the least B with 2^B > MaxKey: distinct keys differ in their low B bits
RECURSIVE BitsFor(_)
BitsFor(n) == IF n = 0 THEN 0 ELSE 1 + BitsFor(n \div 2)

KeyBits == BitsFor(MaxKey)

\* C14: NumBuckets() is the number of distinct buckets the directory
\* references; a fresh table has global depth 0 and one bucket of depth 0.
C14_NumBucketsIsDistinctCount ==
    /\ num_buckets_ = Cardinality(DirBuckets)
    /\ (last.op = "new") =>
          /\ num_buckets_ = 1
          /\ global_depth_ = 0
          /\ Len(dir_) = 1
          /\ buckets[dir_[1]].depth = 0

\* a Remove on a table of at least three buckets, some shared by several slots
C14_Witness ==
    /\ last.op = "Remove"
    /\ last.ret
    /\ Cardinality(DirBuckets) >= 3
    /\ Len(dir_) > Cardinality(DirBuckets)

\* C15: for every slot s and entry (k, v) of the bucket dir[s], the low
\* d_local bits of hash(k) are the low d_local bits of s; so the bucket Find
\* looks into is the only one that can hold k.
C15_DirectoryBucketCoherence ==
    /\ \A s \in 0..(Len(dir_) - 1) :
          LET bucket == buckets[dir_[s + 1]]
              mask == 2 ^ bucket.depth - 1
          IN  \A i \in 1..Len(bucket.list) :
                 BitAnd(Hash(bucket.list[i][1]), mask) = BitAnd(s, mask)
    /\ \A key \in Keys : \A n \in 1..Len(buckets) :
          PosOf(buckets[n].list, key, 1) # 0 =>
              n = dir_[IndexOf(key, global_depth_) + 1]

\* a table with a non-empty bucket shared by several slots and a non-empty
\* bucket of full depth
C15_Witness ==
    /\ global_depth_ >= 2
    /\ \E n \in DirBuckets :
          buckets[n].depth < global_depth_ /\ buckets[n].list # <<>>
    /\ \E n \in DirBuckets :
          buckets[n].depth = global_depth_ /\ buckets[n].list # <<>>

\* C16: the directory has 2^d_global slots, every bucket has d_local <=
\* d_global and is referenced by exactly the 2^(d_global - d_local) slots that
\* agree on their low d_local bits, also right after a doubling.
C16_DirectoryShape ==
    /\ Len(dir_) = 2 ^ global_depth_
    /\ \A n \in 1..Len(buckets) :
          /\ buckets[n].depth <= global_depth_
          /\ Cardinality(SlotsOf(n)) = 2 ^ (global_depth_ - buckets[n].depth)
          /\ \A s \in SlotsOf(n) : \A u \in 0..(Len(dir_) - 1) :
                (dir_[u + 1] = n) <=>
                    (u % (2 ^ buckets[n].depth) = s % (2 ^ buckets[n].depth))

\* an Insert that doubled a directory of depth >= 1 and left a bucket of
\* smaller local depth
C16_Witness ==
    /\ last.op = "Insert"
    /\ pre.global_depth >= 1
    /\ global_depth_ > pre.global_depth
    /\ \E n \in 1..Len(buckets) : buckets[n].depth < global_depth_

\* C17: every key occurs at most once in the whole table.
C17_UniqueBinding ==
    \A key \in Keys : Occurrences(buckets, Len(buckets), key) <= 1

\* an overwrite of a bound key on a table that has split and holds three keys
C17_Witness ==
    /\ last.op = "Insert"
    /\ TableFind(pre, last.key) # NoValue
    /\ Len(buckets) >= 2
    /\ Cardinality({key \in Keys : Occurrences(buckets, Len(buckets), key) = 1}) >= 3

\* C19: keys differing in their low KeyBits bits, capacity >= 1: from every
\* reachable table every Insert(k, v) returns after at most KeyBits
\* expansion/split steps, and the global depth never exceeds KeyBits.
C19_InsertTerminates ==
    /\ bucket_size_ >= 1
    /\ global_depth_ <= KeyBits
    /\ \A key \in Keys : \A value \in ValuesOf(key) :
          LET r == InsertLoop(TableState, key, value)
          IN  /\ r.done
              /\ r.table.global_depth <= KeyBits
              /\ r.table.num_buckets - num_buckets_ <= KeyBits

\* an Insert that took several expansion/split steps and reached depth KeyBits
C19_Witness ==
    /\ last.op = "Insert"
    /\ num_buckets_ - pre.num_buckets >= 2
    /\ global_depth_ = KeyBits

\* the expansion/split steps of Insert(key, value) on the table t each raise
\* the global depth by one exactly when the full bucket's local depth equals
\* it, the split bucket's local depth by exactly one, and no other depth
RECURSIVE SplitStepsRaiseByOne(_, _, _)
SplitStepsRaiseByOne(t, key, value) ==
    LET index == IndexOf(key, t.global_depth)
        b == t.dir[index + 1]
    IN  IF BucketInsert(t.buckets[b], key, value).ok THEN TRUE
        ELSE IF t.buckets[b].depth = t.global_depth /\ t.global_depth >= MaxGlobalDepth
        THEN TRUE
        ELSE LET u == SplitStep(t, index)
             IN  /\ u.global_depth =
                       t.global_depth
                       + (IF t.buckets[b].depth = t.global_depth THEN 1 ELSE 0)
                 /\ u.buckets[b].depth = t.buckets[b].depth + 1
                 /\ \A n \in (1..Len(t.buckets)) \ {b} :
                       u.buckets[n].depth = t.buckets[n].depth
                 /\ SplitStepsRaiseByOne(u, key, value)

\* C20: the global depth and every bucket's local depth never decrease; Remove
\* changes neither; an expansion/split step raises the global depth by at
\* most one (only when the full bucket's local depth equals it) and the split
\* bucket's local depth by exactly one.
C20_MonotoneDepth ==
    /\ global_depth_ >= pre.global_depth
    /\ Len(buckets) >= Len(pre.buckets)
    /\ \A n \in 1..Len(pre.buckets) : buckets[n].depth >= pre.buckets[n].depth
    /\ (last.op = "Remove") =>
          /\ global_depth_ = pre.global_depth
          /\ dir_ = pre.dir
          /\ Len(buckets) = Len(pre.buckets)
          /\ \A n \in 1..Len(buckets) : buckets[n].depth = pre.buckets[n].depth
    /\ \A key \in Keys : SplitStepsRaiseByOne(TableState, key, key)

\* an Insert that doubled the directory twice
C20_Witness ==
    /\ last.op = "Insert"
    /\ global_depth_ = pre.global_depth + 2
    /\ \E n \in 1..Len(pre.buckets) : buckets[n].depth = pre.buckets[n].depth + 2

----------------------------------------------------------------------------
(* Properties of the threads sharing one instance, under SpecThreads *)

\* the thread t is between the acquisition of the mutex and its release
Inside(t) == pc[t] # "idle"

\* the thread t is at the first statement after the acquisition of the mutex
AtEntry(t) ==
    pc[t] \in {"Insert", "Find", "Remove", "GetGlobalDepth", "GetLocalDepth",
               "GetNumBuckets", "Evict", "RecordAccess", "SetEvictable", "Size"}

\* the table and the value returned when the call runs alone on the table s
TableEffect(s, call) ==
    LET t == [dir |-> s.dir, buckets |-> s.buckets, global_depth |-> s.global_depth,
              num_buckets |-> s.num_buckets]
        b == t.dir[IndexOf(call.key, t.global_depth) + 1]
    IN  IF call.op = "Insert"
        THEN [table |-> InsertLoop(t, call.key, call.value).table,
              abs |-> [s.abs EXCEPT ![call.key] = call.value], ret |-> NoValue]
        ELSE IF call.op = "Find"
        THEN [table |-> t, abs |-> s.abs, ret |-> TableFind(t, call.key)]
        ELSE IF call.op = "Remove"
        THEN [table |-> [t EXCEPT !.buckets[b] = BucketRemove(@, call.key)],
              abs |-> [s.abs EXCEPT ![call.key] = NoValue],
              ret |-> IF TableFind(t, call.key) = NoValue THEN 0 ELSE 1]
        ELSE IF call.op = "GetGlobalDepth"
        THEN [table |-> t, abs |-> s.abs, ret |-> t.global_depth]
        ELSE IF call.op = "GetLocalDepth"
        THEN [table |-> t, abs |-> s.abs, ret |-> t.buckets[t.dir[1]].depth]
        ELSE [table |-> t, abs |-> s.abs, ret |-> t.num_buckets]

\* the replacer after the call, which returned call.ret, ran alone on s
ReplacerEffect(s, call) ==
    IF call.op = "Evict"
    THEN IF call.ret = NoFrame THEN s
         ELSE [s EXCEPT !.access_history[call.ret] = <<>>,
                        !.evictable[call.ret] = FALSE,
                        !.curr_size = @ - 1]
    ELSE IF call.op = "RecordAccess"
    THEN [s EXCEPT !.access_history[call.arg] = Append(@, s.current_timestamp),
                   !.current_timestamp = @ + 1]
    ELSE IF call.op = "SetEvictable"
    THEN IF s.access_history[call.arg] # <<>> /\ s.evictable[call.arg] # call.flag
         THEN [s EXCEPT !.evictable[call.arg] = call.flag,
                        !.curr_size = IF call.flag THEN @ + 1 ELSE @ - 1]
         ELSE s
    ELSE IF call.op = "Remove"
    THEN IF s.access_history[call.arg] # <<>> /\ s.evictable[call.arg]
         THEN [s EXCEPT !.access_history[call.arg] = <<>>,
                        !.evictable[call.arg] = FALSE,
                        !.curr_size = @ - 1]
         ELSE s
    ELSE s

\* the value the call may return when it runs alone on the replacer s
ReplacerReturns(s, call) ==
    LET candidates == {f \in DOMAIN s.evictable :
                         s.evictable[f] /\ s.access_history[f] # <<>>}
    IN  IF call.op = "Evict"
        THEN IF candidates = {} THEN call.ret = NoFrame ELSE call.ret \in candidates
        ELSE IF call.op = "Size"
        THEN call.ret = Cardinality({f \in DOMAIN s.evictable : s.evictable[f]})
        ELSE call.ret = NoFrame

\* at most the holder of the mutex is inside an operation
MutualExclusion == \A t \in Threads : Inside(t) => latch_ = t

\* when the mutex is free, the instance is what the last call, run alone on
\* the state it found when it took the mutex, makes of that state
SequentialEffect ==
    (latch_ = 0 /\ last.op # "new") =>
        IF instance = "table"
        THEN LET e == TableEffect(pre, last) IN
               /\ TableState = e.table
               /\ abs = e.abs
               /\ last.ret = e.ret
        ELSE /\ ReplacerState = ReplacerEffect(pre, last)
             /\ ReplacerReturns(pre, last)

\* a thread that has just taken the mutex finds no split under way
NoIntermediateState ==
    \A t \in Threads : AtEntry(t) =>
        /\ Len(dir_) = 2 ^ global_depth_
        /\ {dir_[s] : s \in 1..Len(dir_)} = 1..Len(buckets)
        /\ \A key \in Keys :
             abs[key] # NoValue =>
               BucketFind(buckets[dir_[IndexOf(key, global_depth_) + 1]], key) = abs[key]

\* C13: every operation of one instance runs inside the instance's mutex: at
\* most one thread is inside an operation, every call leaves the instance as
\* the same call run alone in lock-acquisition order would, and a thread
\* entering an operation never finds another thread's Insert half done
C13_OperationsAreAtomic ==
    /\ MutualExclusion
    /\ SequentialEffect
    /\ NoIntermediateState

\* a thread is inside Insert with global_depth_ incremented and the directory
\* not yet doubled, after a call of another thread has returned
C13_Witness ==
    \E t \in Threads :
      /\ pc[t] = "double"
      /\ Len(dir_) < 2 ^ global_depth_
      /\ last.op # "new"
      /\ last.by # t
      /\ \A u \in Threads \ {t} : ~Inside(u)

\* C18: no bucket holds more entries than the capacity given at construction,
\* in every state, the states inside a split included
C18_BucketWithinCapacity ==
    \A n \in 1..Len(buckets) :
      /\ buckets[n].size = bucket_size_
      /\ Len(buckets[n].list) <= bucket_size_

\* a thread is inside the loop that moves entries, an entry has been moved to
\* the new bucket and the old bucket was full when the split began
C18_Witness ==
    \E t \in Threads :
      /\ pc[t] = "move"
      /\ frame[t].i > 1
      /\ Len(frame[t].origin_items) = bucket_size_
      /\ bucket_size_ > 1
      /\ buckets[frame[t].d].list # <<>>
      /\ buckets[frame[t].b].list # <<>>

====
